---- MODULE Spec2Model ----
(* pixelpath: the key handler of the draw window (src/main.rs) acting on the  *)
(* global ApplicationState, and the SVG assembler (src/xml.rs).               *)
(*                                                                            *)
(* Point.x / Point.y are Rust i32.  "+=", "-=" and "*" on i32 wrap in a       *)
(* release build and panic in a debug build (overflow-checks); both outcomes  *)
(* are modelled.  TLC's own integers are 32 bit and fail on overflow, so the  *)
(* wrapped results are computed without ever leaving the i32 range.           *)
EXTENDS Integers, Sequences, FiniteSets, TLC

VARIABLES
    state,        \* the ApplicationState behind the STATE mutex
    state_guard,  \* TRUE while a key handler holds the STATE lock
    pc,           \* where the window thread is: idle / dialog / hung / aborted
    key,          \* the message handled last: the wparam of a WM_KEYDOWN, or
                  \* "WM_PAINT"
    shift_state,  \* GetKeyState(VK_SHIFT) < 0 as read by the H / V branch
    redraw,       \* the handler's local `redraw`
    svg,          \* the document assembled by the handler, NoSvg otherwise
    sink,         \* where that document went
    painted       \* what paint_draw_window read from STATE in the last step

vars == <<state, state_guard, pc, key, shift_state, redraw, svg, sink,
          painted>>

-----------------------------------------------------------------------------
(* Bounds of the exploration *)

MaxSteps == 1     \* net increments of cursor.x, cursor.y, grid_count.x and
                  \* grid_count.y together, counted from where they started
MaxPaths == 2     \* number of paths
MaxPoints == 2    \* points in all paths together
MaxSize == 5      \* those increments, the paths and the points together
SvgMaxPaths == 3  \* serializer inputs: number of paths
SvgMaxPoints == 2 \* serializer inputs: points per generated path

-----------------------------------------------------------------------------
(* Program constants *)

HORIZONTAL_FACTOR == 100
VERTICAL_FACTOR == 100
SVG_NS_URI == "http://www.w3.org/2000/svg"

I32Max == 2147483647
I32Min == (-2147483647) - 1

-----------------------------------------------------------------------------
(* i32 arithmetic *)

\* a + b overflows i32 (b > 0)
AddOverflows(a, b) == a > I32Max - b

\* a + b as a release build computes it (b > 0): wraps modulo 2^32
AddI32(a, b) ==
    IF AddOverflows(a, b) THEN I32Min + ((b - (I32Max - a)) - 1) ELSE a + b

\* a - b overflows i32 (b > 0)
SubOverflows(a, b) == a < I32Min + b

\* a - b as a release build computes it (b > 0): wraps modulo 2^32
SubI32(a, b) ==
    IF SubOverflows(a, b) THEN I32Max - ((b - (a - I32Min)) - 1) ELSE a - b

\* a * b overflows i32 (0 < b < 65536)
MulOverflows(a, b) ==
    \/ a > I32Max \div b
    \/ a < (I32Min + (b - 1)) \div b

\* a * b as a release build computes it (0 < b < 65536): the low 32 bits of
\* the product, computed on the two 16-bit halves of a's two's complement
MulI32(a, b) ==
    LET hi == IF a >= 0 THEN a \div 65536 ELSE 65535 - ((-(a + 1)) \div 65536)
        lo == IF a >= 0 THEN a % 65536 ELSE 65535 - ((-(a + 1)) % 65536)
        plo == (lo * b) % 65536
        carry == (lo * b) \div 65536
        phi == (hi * b + carry) % 65536
    IN  IF phi >= 32768
        THEN (-((65535 - phi) * 65536 + (65535 - plo))) - 1
        ELSE phi * 65536 + plo

-----------------------------------------------------------------------------
(* Data *)

Point(px, py) == [x |-> px, y |-> py]

ClosedPath(pts) == [points |-> pts]

\* ApplicationState::default()
DefaultState ==
    [cursor |-> Point(0, 0), is_drawing |-> FALSE, paths |-> <<>>,
     grid_count |-> Point(0, 0)]

-----------------------------------------------------------------------------
(* Key-handler branches of draw_window_proc: each maps the ApplicationState  *)
(* found under the lock to the one left there (release-build arithmetic).    *)

\* VK_LEFT
MoveLeft(s) ==
    LET nx == SubI32(s.cursor.x, HORIZONTAL_FACTOR)
    IN  [s EXCEPT !.cursor.x = IF nx < 0 THEN 0 ELSE nx]

\* VK_RIGHT
MoveRight(s) == [s EXCEPT !.cursor.x = AddI32(@, HORIZONTAL_FACTOR)]

\* VK_UP
MoveUp(s) ==
    LET ny == SubI32(s.cursor.y, VERTICAL_FACTOR)
    IN  [s EXCEPT !.cursor.y = IF ny < 0 THEN 0 ELSE ny]

\* VK_DOWN adding to the other coordinate
MoveDown_Column(s) == [s EXCEPT !.cursor.x = AddI32(@, VERTICAL_FACTOR)]

\* VK_DOWN
MoveDown(s) == [s EXCEPT !.cursor.y = AddI32(@, VERTICAL_FACTOR)]

\* AddPoint without the is_drawing test: every point starts a new path
AddPoint_AlwaysNewPath(s) ==
    [s EXCEPT !.paths = Append(@, ClosedPath(<<s.cursor>>)),
              !.is_drawing = TRUE]

\* VK_SPACE; paths.last_mut().unwrap() needs a last path (AddPointUnwrapFails)
AddPoint(s) ==
    LET cursor == s.cursor
        pushed == IF ~s.is_drawing
                  THEN Append(s.paths, ClosedPath(<<>>))
                  ELSE s.paths
        last == Len(pushed)
    IN  [s EXCEPT !.paths = [pushed EXCEPT ![last].points = Append(@, cursor)],
                  !.is_drawing = TRUE]

AddPointUnwrapFails(s) == s.is_drawing /\ s.paths = <<>>

\* RemoveLastPoint that also drops the last path once it has no point left
RemoveLastPoint_DropsEmptyPath(s) ==
    IF s.paths # <<>>
    THEN IF Len(s.paths[Len(s.paths)].points) <= 1
         THEN [s EXCEPT !.paths = SubSeq(@, 1, Len(@) - 1)]
         ELSE [s EXCEPT !.paths[Len(s.paths)].points =
                            SubSeq(@, 1, Len(@) - 1)]
    ELSE s

\* RemoveLastPoint guarded by is_drawing: a committed path is left alone
RemoveLastPoint_OnlyWhileDrawing(s) ==
    IF s.is_drawing /\ s.paths # <<>>
    THEN [s EXCEPT !.paths[Len(s.paths)].points =
                       IF @ = <<>> THEN @ ELSE SubSeq(@, 1, Len(@) - 1)]
    ELSE s

\* RemoveLastPoint as points.clear() instead of points.pop()
RemoveLastPoint_ClearsPath(s) ==
    IF s.paths # <<>>
    THEN [s EXCEPT !.paths[Len(s.paths)].points = <<>>]
    ELSE s

\* VK_BACK
RemoveLastPoint(s) ==
    IF s.paths # <<>>
    THEN [s EXCEPT !.paths[Len(s.paths)].points =
                       IF @ = <<>> THEN @ ELSE SubSeq(@, 1, Len(@) - 1)]
    ELSE s

\* CommitPath that leaves is_drawing set
CommitPath_StillDrawing(s) == s

\* VK_RETURN
CommitPath(s) == [s EXCEPT !.is_drawing = FALSE]

\* CancelPath as paths.clear() instead of paths.pop()
CancelPath_Clear(s) == [s EXCEPT !.paths = <<>>, !.is_drawing = FALSE]

\* CancelPath that forgets to clear is_drawing
CancelPath_KeepsDrawing(s) ==
    [s EXCEPT !.paths = IF @ = <<>> THEN @ ELSE SubSeq(@, 1, Len(@) - 1)]

\* VK_ESCAPE
CancelPath(s) ==
    [s EXCEPT !.paths = IF @ = <<>> THEN @ ELSE SubSeq(@, 1, Len(@) - 1),
              !.is_drawing = FALSE]

\* an export branch that also finishes the open path
ExportRequest_Commits(s) == [s EXCEPT !.is_drawing = FALSE]

\* VK_P and VK_S: the branch only reads grid_count and paths
ExportRequest(s) == s

\* VK_H with shift
DecreaseGridX(s) ==
    LET nx == SubI32(s.grid_count.x, 1)
    IN  [s EXCEPT !.grid_count.x = IF nx < 0 THEN 0 ELSE nx]

\* VK_H without shift
IncreaseGridX(s) == [s EXCEPT !.grid_count.x = AddI32(@, 1)]

\* VK_V with shift
DecreaseGridY(s) ==
    LET ny == SubI32(s.grid_count.y, 1)
    IN  [s EXCEPT !.grid_count.y = IF ny < 0 THEN 0 ELSE ny]

\* VK_V without shift
IncreaseGridY(s) == [s EXCEPT !.grid_count.y = AddI32(@, 1)]

\* the final else branch
Unrecognized(s) == s

-----------------------------------------------------------------------------
(* Keys *)

MoveKeys == {"VK_LEFT", "VK_RIGHT", "VK_UP", "VK_DOWN"}
PathKeys == {"VK_SPACE", "VK_BACK", "VK_RETURN", "VK_ESCAPE"}
ExportKeys == {"VK_P", "VK_S"}
GridKeys == {"VK_H", "VK_V"}
\* VK_OTHER: a virtual key none of the comparisons matches;
\* WPARAM_TOO_BIG: a wparam that does not fit VIRTUAL_KEY's u16
Keys == MoveKeys \cup PathKeys \cup ExportKeys \cup GridKeys
            \cup {"VK_OTHER", "WPARAM_TOO_BIG"}

\* the if / else-if chain on `key`
KeyBranch(k, shift, s) ==
    CASE k = "VK_LEFT" -> MoveLeft(s)
      [] k = "VK_RIGHT" -> MoveRight(s)
      [] k = "VK_UP" -> MoveUp(s)
      [] k = "VK_DOWN" -> MoveDown(s)
      [] k = "VK_SPACE" -> AddPoint(s)
      [] k = "VK_BACK" -> RemoveLastPoint(s)
      [] k = "VK_RETURN" -> CommitPath(s)
      [] k = "VK_ESCAPE" -> CancelPath(s)
      [] k \in ExportKeys -> ExportRequest(s)
      [] k = "VK_H" -> IF shift THEN DecreaseGridX(s) ELSE IncreaseGridX(s)
      [] k = "VK_V" -> IF shift THEN DecreaseGridY(s) ELSE IncreaseGridY(s)
      [] OTHER -> Unrecognized(s)

\* `redraw` also cleared by the two export branches
RedrawFlag_ExportQuiet(k) == k \notin {"VK_OTHER", "VK_P", "VK_S"}

\* `redraw` never cleared
RedrawFlag_Always(k) == TRUE

\* `redraw` when the chain is left: initialised true, cleared by the final else
RedrawFlag(k) == k # "VK_OTHER"

\* the branch performs an i32 operation that overflows: a debug build panics
\* there, a release build wraps
BranchOverflows(k, shift, s) ==
    CASE k = "VK_LEFT" -> SubOverflows(s.cursor.x, HORIZONTAL_FACTOR)
      [] k = "VK_RIGHT" -> AddOverflows(s.cursor.x, HORIZONTAL_FACTOR)
      [] k = "VK_UP" -> SubOverflows(s.cursor.y, VERTICAL_FACTOR)
      [] k = "VK_DOWN" -> AddOverflows(s.cursor.y, VERTICAL_FACTOR)
      [] k \in ExportKeys -> \/ MulOverflows(s.grid_count.x, HORIZONTAL_FACTOR)
                             \/ MulOverflows(s.grid_count.y, VERTICAL_FACTOR)
      [] k = "VK_H" -> IF shift THEN SubOverflows(s.grid_count.x, 1)
                                ELSE AddOverflows(s.grid_count.x, 1)
      [] k = "VK_V" -> IF shift THEN SubOverflows(s.grid_count.y, 1)
                                ELSE AddOverflows(s.grid_count.y, 1)
      [] OTHER -> FALSE

\* the branch panics in every build
BranchPanics(k, s) == k = "VK_SPACE" /\ AddPointUnwrapFails(s)

-----------------------------------------------------------------------------
(* assemble_svg (src/xml.rs).  Text is a sequence of one-character strings.  *)

DigitChars == <<"0", "1", "2", "3", "4", "5", "6", "7", "8", "9">>

\* decimal digits of n >= 0
RECURSIVE Digits(_)
Digits(n) ==
    IF n < 10 THEN <<DigitChars[n + 1]>>
    ELSE Digits(n \div 10) \o <<DigitChars[(n % 10) + 1]>>

\* format!("{}", n) for an i32
Display(n) ==
    IF n >= 0 THEN Digits(n)
    ELSE IF n = I32Min THEN <<"-">> \o Digits(I32Max \div 10) \o <<"8">>
    ELSE <<"-">> \o Digits(-n)

\* the inner loop with the spacing chosen by the point index instead of by
\* the buffer: no space in front of any path's first point
RECURSIVE WritePoints_SpacingByIndex(_, _, _)
WritePoints_SpacingByIndex(full_path_def, points, i) ==
    IF i > Len(points) THEN full_path_def
    ELSE LET spacing == IF i = 1 THEN <<>> ELSE <<" ">>
             prefix == IF i = 1 THEN <<"M">> ELSE <<"L">>
         IN  WritePoints_SpacingByIndex(
                 full_path_def \o spacing \o prefix \o <<" ">>
                     \o Display(points[i].x) \o <<" ">>
                     \o Display(points[i].y),
                 points, i + 1)

\* the inner loop over path.points, from the i-th point on (i = 1 is first)
RECURSIVE WritePoints(_, _, _)
WritePoints(full_path_def, points, i) ==
    IF i > Len(points) THEN full_path_def
    ELSE LET spacing == IF Len(full_path_def) = 0 THEN <<>> ELSE <<" ">>
             prefix == IF i = 1 THEN <<"M">> ELSE <<"L">>
         IN  WritePoints(full_path_def \o spacing \o prefix \o <<" ">>
                             \o Display(points[i].x) \o <<" ">>
                             \o Display(points[i].y),
                         points, i + 1)

\* the outer loop without the `continue` for a path of no points: such a
\* path is closed like any other
RECURSIVE WritePaths_NoSkip(_, _, _)
WritePaths_NoSkip(full_path_def, paths, j) ==
    IF j > Len(paths) THEN full_path_def
    ELSE WritePaths_NoSkip(WritePoints(full_path_def, paths[j].points, 1)
                               \o <<" ", "z">>,
                           paths, j + 1)

\* the outer loop over paths, from the j-th path on
RECURSIVE WritePaths(_, _, _)
WritePaths(full_path_def, paths, j) ==
    IF j > Len(paths) THEN full_path_def
    ELSE IF Len(paths[j].points) = 0
         THEN WritePaths(full_path_def, paths, j + 1)
         ELSE WritePaths(WritePoints(full_path_def, paths[j].points, 1)
                             \o <<" ", "z">>,
                         paths, j + 1)

\* width and height attributes (release-build product)
SvgWidth(grid) == Display(MulI32(grid.x, HORIZONTAL_FACTOR))
SvgHeight(grid) == Display(MulI32(grid.y, VERTICAL_FACTOR))

\* the attributes of the assembled document: <svg xmlns width height><path d>
assemble_svg(grid, paths) ==
    [xmlns |-> SVG_NS_URI,
     width |-> SvgWidth(grid),
     height |-> SvgHeight(grid),
     d |-> WritePaths(<<>>, paths, 1)]

\* no document assembled by the last handler
NoSvg == [xmlns |-> "", width |-> <<>>, height |-> <<>>, d |-> <<>>]

-----------------------------------------------------------------------------
(* Exploration caps on the unbounded parts of the state *)

\* largest cursor coordinate MoveRight / MoveDown reach without overflow
\* (21474836 presses)
FarCursor == (I32Max \div HORIZONTAL_FACTOR) * HORIZONTAL_FACTOR

\* number of moves right / down that lead to coordinate v from where the
\* coordinate started: 0, or FarCursor (the move after it wraps)
CoordDist(v) ==
    IF v >= FarCursor THEN (v - FarCursor) \div HORIZONTAL_FACTOR
    ELSE IF v >= 0 THEN v \div HORIZONTAL_FACTOR
    ELSE 1 + (v - AddI32(FarCursor, HORIZONTAL_FACTOR)) \div HORIZONTAL_FACTOR

\* number of increments that lead to grid count v from 0, or from i32::MAX
GridDist(v) ==
    IF v = I32Max THEN 0
    ELSE IF v >= 0 THEN v
    ELSE 1 + (v - I32Min)

CountersOK(s) ==
    /\ CoordDist(s.cursor.x) <= MaxSteps
    /\ CoordDist(s.cursor.y) <= MaxSteps
    /\ GridDist(s.grid_count.x) <= MaxSteps
    /\ GridDist(s.grid_count.y) <= MaxSteps
    /\ CoordDist(s.cursor.x) + CoordDist(s.cursor.y)
           + GridDist(s.grid_count.x) + GridDist(s.grid_count.y) <= MaxSteps

RECURSIVE TotalPoints(_)
TotalPoints(paths) ==
    IF paths = <<>> THEN 0
    ELSE Len(Head(paths).points) + TotalPoints(Tail(paths))

PathsOK(paths) ==
    /\ Len(paths) <= MaxPaths
    /\ TotalPoints(paths) <= MaxPoints

SizeOK(s) ==
    CoordDist(s.cursor.x) + CoordDist(s.cursor.y)
        + GridDist(s.grid_count.x) + GridDist(s.grid_count.y)
        + Len(s.paths) + TotalPoints(s.paths) <= MaxSize

\* the state the key leaves behind is still inside the explored region
Capped(k, next) ==
    CASE k \in MoveKeys \cup GridKeys -> CountersOK(next) /\ SizeOK(next)
      [] k = "VK_SPACE" -> PathsOK(next.paths) /\ SizeOK(next)
      [] OTHER -> TRUE

-----------------------------------------------------------------------------
(* The window thread *)

\* the cursor after 21474836 moves right and down, the grid after 2147483647
\* presses of H and V
FarState ==
    [cursor |-> Point(FarCursor, FarCursor), is_drawing |-> FALSE,
     paths |-> <<>>, grid_count |-> Point(I32Max, I32Max)]

\* STATE.lock() by the window thread while a key handler frame of the same
\* thread holds the guard (`held`) as if the mutex were re-entrant
LockOutcomes_Reentrant(held) == {"locked"}

\* STATE.lock() by the window thread: std::sync::Mutex is not re-entrant, a
\* second lock on the owning thread deadlocks or panics
LockOutcomes(held) == IF held THEN {"hung", "aborted"} ELSE {"locked"}

\* no paint_draw_window got as far as reading STATE
NoPaint == [drawn |-> FALSE, from |-> DefaultState]

\* paint_draw_window drew grid, paths and cursor from the state s
Painted(s) == [drawn |-> TRUE, from |-> s]

\* the tail of the key handler: RedrawWindow with RDW_UPDATENOW sends
\* WM_PAINT before it returns, after the guard's scope has ended
Repaint(flag, s) == IF flag THEN Painted(s) ELSE NoPaint

\* The state after construction
Init ==
    /\ state = DefaultState
    /\ state_guard = FALSE
    /\ pc = "idle"
    /\ key = "none"
    /\ shift_state = FALSE
    /\ redraw = FALSE
    /\ svg = NoSvg
    /\ sink = "none"
    /\ painted = NoPaint

\* GetKeyState(VK_SHIFT) is only read by the H and V branches
ShiftStates(k) == IF k \in GridKeys THEN BOOLEAN ELSE {FALSE}

\* WM_KEYDOWN for every key but VK_S: lock, branch, unlock, redraw
KeyDown(k) ==
    /\ pc = "idle"
    /\ k \in Keys \ {"VK_S", "WPARAM_TOO_BIG"}
    /\ \E shift \in ShiftStates(k) :
        /\ key' = k
        /\ shift_state' = shift
        /\ \/ /\ ~BranchPanics(k, state)
              /\ Capped(k, KeyBranch(k, shift, state))
              /\ state' = KeyBranch(k, shift, state)
              /\ redraw' = RedrawFlag(k)
              /\ svg' = IF k = "VK_P"
                        THEN assemble_svg(state.grid_count, state.paths)
                        ELSE NoSvg
              /\ sink' = IF k = "VK_P" THEN "stdout" ELSE "none"
              /\ painted' = Repaint(RedrawFlag(k), state')
              /\ UNCHANGED <<state_guard, pc>>
           \/ /\ BranchPanics(k, state) \/ BranchOverflows(k, shift, state)
              /\ pc' = "aborted"
              /\ state_guard' = TRUE
              /\ redraw' = TRUE
              /\ svg' = NoSvg
              /\ sink' = "none"
              /\ painted' = NoPaint
              /\ UNCHANGED state

\* WM_KEYDOWN whose wparam does not convert: straight to DefWindowProcW
KeyDownNoKey ==
    /\ pc = "idle"
    /\ key' = "WPARAM_TOO_BIG"
    /\ redraw' = FALSE
    /\ svg' = NoSvg
    /\ sink' = "none"
    /\ painted' = NoPaint
    /\ UNCHANGED <<state, state_guard, pc, shift_state>>

\* WM_KEYDOWN VK_S up to the point where save_svg sits in GetSaveFileNameW:
\* the document is assembled and the modal dialog runs, state_guard alive
SaveKeyDown ==
    /\ pc = "idle"
    /\ key' = "VK_S"
    /\ shift_state' = FALSE
    /\ redraw' = RedrawFlag("VK_S")
    /\ state_guard' = TRUE
    /\ sink' = "none"
    /\ painted' = NoPaint
    /\ \/ /\ state' = KeyBranch("VK_S", FALSE, state)
          /\ svg' = assemble_svg(state.grid_count, state.paths)
          /\ pc' = "dialog"
       \/ /\ BranchOverflows("VK_S", FALSE, state)
          /\ pc' = "aborted"
          /\ svg' = NoSvg
          /\ UNCHANGED state

\* GetSaveFileNameW returns false: save_svg returns, the handler unlocks
\* and redraws
SaveCancelled ==
    /\ pc = "dialog"
    /\ pc' = "idle"
    /\ state_guard' = FALSE
    /\ sink' = "cancelled"
    /\ painted' = Repaint(redraw, state)
    /\ UNCHANGED <<state, key, shift_state, redraw, svg>>

\* GetSaveFileNameW returns true: std::fs::write succeeds or fails (printed)
SaveWritten ==
    /\ pc = "dialog"
    /\ pc' = "idle"
    /\ state_guard' = FALSE
    /\ \E ok \in BOOLEAN : sink' = IF ok THEN "file" ELSE "write error"
    /\ painted' = Repaint(redraw, state)
    /\ UNCHANGED <<state, key, shift_state, redraw, svg>>

\* paint_draw_window from STATE.lock() on: with the lock it reads the state
\* and draws, without it the thread is stuck or gone
PaintBody(o) ==
    IF o = "locked"
    THEN pc' = pc /\ painted' = Painted(state)
    ELSE pc' = o /\ painted' = NoPaint

\* WM_PAINT taken from the queue by the message loop of main
Paint ==
    /\ pc = "idle"
    /\ key' = "WM_PAINT"
    /\ shift_state' = FALSE
    /\ redraw' = FALSE
    /\ svg' = NoSvg
    /\ sink' = "none"
    /\ \E o \in LockOutcomes(state_guard) : PaintBody(o)
    /\ UNCHANGED <<state, state_guard>>

\* WM_PAINT dispatched by the dialog's message loop: paint_draw_window locks
\* STATE on the thread whose VK_S handler frame holds it
PaintInDialog ==
    /\ pc = "dialog"
    /\ \E o \in LockOutcomes(state_guard) : PaintBody(o)
    /\ UNCHANGED <<state, state_guard, key, shift_state, redraw, svg, sink>>

Next ==
    \/ \E k \in Keys : KeyDown(k)
    \/ KeyDownNoKey
    \/ SaveKeyDown
    \/ SaveCancelled
    \/ SaveWritten
    \/ Paint
    \/ PaintInDialog

Spec == Init /\ [][Next]_vars

-----------------------------------------------------------------------------
(* The counters at the top of the i32 range.  The handlers take one step per *)
(* WM_KEYDOWN, so the far end is explored from the state the program is in   *)
(* after Right and Down were each pressed 21474836 times and H and V each    *)
(* 2147483647 times, with the keys that touch the counters or read them.     *)

InitFar ==
    /\ state = FarState
    /\ state_guard = FALSE
    /\ pc = "idle"
    /\ key = "none"
    /\ shift_state = FALSE
    /\ redraw = FALSE
    /\ svg = NoSvg
    /\ sink = "none"
    /\ painted = NoPaint

FarKeys == MoveKeys \cup GridKeys \cup {"VK_SPACE", "VK_P"}

NextFar == \E k \in FarKeys : KeyDown(k)

SpecFar == InitFar /\ [][NextFar]_vars

-----------------------------------------------------------------------------
(* The serializer on its own: assemble_svg applied (by the P key) to grid    *)
(* counts and paths drawn from bounded sets.                                 *)

SvgGenPoints == {Point(5, 15), Point(-3, 100)}

SvgExamplePaths ==
    {<<Point(0, 0), Point(10, 0)>>,
     <<Point(5, 5), Point(5, 15)>>,
     <<Point(0, 0), Point(100, 0), Point(100, 100)>>}

SvgPathPool ==
    {ClosedPath(pts) :
        pts \in SvgExamplePaths
                  \cup UNION {[1..n -> SvgGenPoints] : n \in 0..SvgMaxPoints}}

SvgPathLists == UNION {[1..n -> SvgPathPool] : n \in 0..SvgMaxPaths}

SvgGrids == {Point(0, 0), Point(2, 2), Point(3, 1), Point(21474837, 1),
             Point(1, 21474837)}

\* every path list with one grid, every grid with the lists of at most one
\* path
SvgInputs ==
    [cursor : {Point(0, 0)}, is_drawing : {FALSE},
     paths : SvgPathLists, grid_count : {Point(2, 2)}]
        \cup [cursor : {Point(0, 0)}, is_drawing : {FALSE},
              paths : UNION {[1..n -> SvgPathPool] : n \in 0..1},
              grid_count : SvgGrids]

InitSvg ==
    /\ state \in SvgInputs
    /\ state_guard = FALSE
    /\ pc = "idle"
    /\ key = "none"
    /\ shift_state = FALSE
    /\ redraw = FALSE
    /\ svg = NoSvg
    /\ sink = "none"
    /\ painted = NoPaint

NextSvg == KeyDown("VK_P")

SpecSvg == InitSvg /\ [][NextSvg]_vars

-----------------------------------------------------------------------------
(* Properties *)

Last(seq) == seq[Len(seq)]

\* every path of q but its last one is the path p has at the same index
KeepsEarlier(p, q) ==
    /\ Len(q) - 1 <= Len(p)
    /\ \A i \in 1..(Len(q) - 1) : q[i] = p[i]

\* C1: in every reachable state the cursor and every stored point have
\* x >= 0 and y >= 0.
C1_NonNegative ==
    /\ state.cursor.x >= 0
    /\ state.cursor.y >= 0
    /\ \A i \in 1..Len(state.paths) :
        \A j \in 1..Len(state.paths[i].points) :
            /\ state.paths[i].points[j].x >= 0
            /\ state.paths[i].points[j].y >= 0

\* C2: an AddPoint step either starts a new last path [cursor] (not drawing:
\* one path more) or appends the cursor to the last path (drawing: same
\* number of paths); it ends drawing and keeps all earlier points.
C2_AddPoint ==
    [][key' = "VK_SPACE" =>
        /\ pc' = "idle"
        /\ state'.is_drawing
        /\ state'.cursor = state.cursor
        /\ IF state.is_drawing
           THEN /\ Len(state'.paths) = Len(state.paths)
                /\ Last(state'.paths).points
                       = Last(state.paths).points \o <<state.cursor>>
                /\ KeepsEarlier(state.paths, state'.paths)
           ELSE /\ Len(state'.paths) = Len(state.paths) + 1
                /\ Last(state'.paths).points = <<state.cursor>>
                /\ \A i \in 1..Len(state.paths) :
                       state'.paths[i] = state.paths[i]]_vars

\* C2 witness: the cursor appended behind an earlier point of the open second
\* path, the first path kept
C2_Witness ==
    /\ key = "VK_SPACE"
    /\ pc = "idle"
    /\ Len(state.paths) = 2
    /\ state.paths[1].points = <<>>
    /\ Len(state.paths[2].points) = 2
    /\ state.paths[2].points[1] # state.cursor
    /\ state.paths[2].points[2] = state.cursor

\* C3: AddPoint right after CommitPath appends a new path holding only the
\* cursor and leaves the committed path with the points it had.
C3_CommitThenAdd ==
    [][(key = "VK_RETURN" /\ key' = "VK_SPACE") =>
        /\ Len(state'.paths) = Len(state.paths) + 1
        /\ Last(state'.paths).points = <<state.cursor>>
        /\ \A i \in 1..Len(state.paths) : state'.paths[i] = state.paths[i]]_vars

\* C3 witness: a second path of one point behind a committed non-empty path
C3_Witness ==
    /\ key = "VK_SPACE"
    /\ Len(state.paths) = 2
    /\ Len(state.paths[1].points) = 1
    /\ state.paths[2].points = <<state.cursor>>

\* C4: a CancelPath step removes exactly the last path, or leaves an empty
\* `paths` empty; it ends with is_drawing false and never fails.
C4_CancelPath ==
    [][key' = "VK_ESCAPE" =>
        /\ pc' = "idle"
        /\ ~state'.is_drawing
        /\ IF state.paths = <<>>
           THEN state'.paths = <<>>
           ELSE /\ Len(state'.paths) = Len(state.paths) - 1
                /\ \A i \in 1..Len(state'.paths) :
                       state'.paths[i] = state.paths[i]]_vars

\* C4 witness: the second of two paths was cancelled, the first one stands
C4_Witness ==
    /\ key = "VK_ESCAPE"
    /\ pc = "idle"
    /\ ~state.is_drawing
    /\ Len(state.paths) = 1
    /\ state.paths[1].points # <<>>

\* C5: in every reachable state both grid counts are >= 0.
C5_GridNonNegative ==
    /\ state.grid_count.x >= 0
    /\ state.grid_count.y >= 0

\* C6: a step of an export command (P, or S up to and including the outcome
\* of the dialog and of the file write) leaves cursor, is_drawing, paths and
\* grid_count as they were.
C6_ExportFrame ==
    [][(key' \in ExportKeys \/ pc = "dialog") =>
        /\ state'.cursor = state.cursor
        /\ state'.is_drawing = state.is_drawing
        /\ state'.paths = state.paths
        /\ state'.grid_count = state.grid_count]_vars

\* C6 witness: a save whose file write failed, while a path is being drawn
C6_Witness ==
    /\ key = "VK_S"
    /\ pc = "idle"
    /\ sink = "write error"
    /\ state.is_drawing
    /\ state.paths # <<>>

\* C7 as claimed: after an export command the refresh signal is "no".
C7_ExportNoRefresh == key \in ExportKeys => ~redraw

\* C7 as the code has it: after an export command the refresh signal is
\* "yes" (redraw keeps its initial value true).
C7_ExportRefresh == key \in ExportKeys => redraw

\* C7 witness: a document was printed and the redraw flag is set
C7_Witness ==
    /\ key = "VK_P"
    /\ pc = "idle"
    /\ sink = "stdout"
    /\ redraw

MutatingKeys == MoveKeys \cup PathKeys \cup GridKeys

\* C8: an unrecognized key changes no field of the state, gives refresh = no
\* and is no error; every recognized mutating key gives refresh = yes.
C8_Unrecognized ==
    [][/\ key' \in {"VK_OTHER", "WPARAM_TOO_BIG"} =>
            /\ state' = state
            /\ ~redraw'
            /\ pc' = "idle"
       /\ key' \in MutatingKeys => redraw']_vars

\* C8 witness: an unknown key handled while a path is being drawn
C8_Witness ==
    /\ key = "VK_OTHER"
    /\ pc = "idle"
    /\ ~redraw
    /\ state.is_drawing
    /\ state.paths # <<>>

\* the decimal text of n * 100, by appending two zeros to the text of n
TimesHundred(n) == IF n = 0 THEN <<"0">> ELSE Display(n) \o <<"0", "0">>

\* C9: the assembled document declares width = grid_count.x * 100 and
\* height = grid_count.y * 100, whatever the paths.
C9_Dimensions ==
    (key = "VK_P" /\ pc = "idle") =>
        /\ svg.width = TimesHundred(state.grid_count.x)
        /\ svg.height = TimesHundred(state.grid_count.y)

\* " L x y" for every point of pts from the i-th on
RECURSIVE LineTos(_, _)
LineTos(pts, i) ==
    IF i > Len(pts) THEN <<>>
    ELSE <<" ", "L", " ">> \o Display(pts[i].x) \o <<" ">>
             \o Display(pts[i].y) \o LineTos(pts, i + 1)

\* "M x0 y0 L x1 y1 ... z" for a non-empty point list
Run(pts) ==
    <<"M", " ">> \o Display(pts[1].x) \o <<" ">> \o Display(pts[1].y)
        \o LineTos(pts, 2) \o <<" ", "z">>

\* the runs of the paths from the j-th on, one space between two runs
RECURSIVE JoinRuns(_, _)
JoinRuns(paths, j) ==
    IF j > Len(paths) THEN <<>>
    ELSE IF j = Len(paths) THEN Run(paths[j].points)
    ELSE Run(paths[j].points) \o <<" ">> \o JoinRuns(paths, j + 1)

TwoPathExample ==
    <<ClosedPath(<<Point(0, 0), Point(10, 0)>>),
      ClosedPath(<<Point(5, 5), Point(5, 15)>>)>>

\* "M 0 0 L 10 0 z M 5 5 L 5 15 z"
TwoPathText ==
    <<"M", " ", "0", " ", "0", " ", "L", " ", "1", "0", " ", "0", " ", "z",
      " ", "M", " ", "5", " ", "5", " ", "L", " ", "5", " ", "1", "5", " ",
      "z">>

\* C10: for non-empty paths the d attribute is the runs "M x0 y0 L xi yi z"
\* of the paths in order, joined by one space, with the stored coordinates;
\* the two-path example gives "M 0 0 L 10 0 z M 5 5 L 5 15 z".
C10_Geometry ==
    (/\ key = "VK_P"
     /\ pc = "idle"
     /\ \A i \in 1..Len(state.paths) : state.paths[i].points # <<>>) =>
        /\ svg.d = JoinRuns(state.paths, 1)
        /\ state.paths = TwoPathExample => svg.d = TwoPathText

\* C10 witness: the two-path example has been serialized
C10_Witness ==
    /\ key = "VK_P"
    /\ pc = "idle"
    /\ state.paths = TwoPathExample
    /\ svg.d = TwoPathText

\* the paths that have at least one point, in order
NonEmptyPaths(paths) == SelectSeq(paths, LAMBDA p : p.points # <<>>)

\* C11: paths of no points add nothing to the d attribute, wherever they
\* stand: d is the d of the paths with the empty ones deleted; if no path has
\* a point d is the empty text, and the document with its path element is
\* assembled all the same.
C11_EmptyPathsSkipped ==
    (key = "VK_P" /\ pc = "idle") =>
        /\ svg.d = JoinRuns(NonEmptyPaths(state.paths), 1)
        /\ svg.d = assemble_svg(state.grid_count,
                                NonEmptyPaths(state.paths)).d
        /\ NonEmptyPaths(state.paths) = <<>> =>
               /\ svg.d = <<>>
               /\ svg.xmlns = SVG_NS_URI
               /\ sink = "stdout"

\* C11 witness: an empty path between the two paths of the example
C11_Witness ==
    /\ key = "VK_P"
    /\ pc = "idle"
    /\ Len(state.paths) = 3
    /\ state.paths[1] = TwoPathExample[1]
    /\ state.paths[2].points = <<>>
    /\ state.paths[3] = TwoPathExample[2]
    /\ svg.d = TwoPathText

\* C12: the STATE lock taken for a command is never held while the handler
\* waits in the save-file dialog or on the file write: no command blocks on
\* I/O while it is applied.
C12_NoLockInDialog == pc = "dialog" => ~state_guard

\* C13: commands are applied one at a time and a paint never overlaps one:
\* the state changes only in a step that starts with no handler in progress
\* and the lock free, and whenever paint_draw_window reads the state no key
\* handler holds the lock and what it reads is the state left by the
\* commands completed so far.
C13_PaintSeesCompleteState ==
    [][/\ state' # state => (pc = "idle" /\ ~state_guard)
       /\ painted'.drawn =>
            /\ ~state_guard'
            /\ pc' = "idle"
            /\ painted'.from = state']_vars

\* C13 witness: the repaint at the end of an AddPoint drew the new point
C13_Witness ==
    /\ key = "VK_SPACE"
    /\ pc = "idle"
    /\ painted.drawn
    /\ painted.from.is_drawing
    /\ Len(painted.from.paths) = 1
    /\ Len(painted.from.paths[1].points) = 2

\* C14: whenever WM_PAINT reaches the window procedure no enclosing key
\* handler frame holds the STATE lock, so paint_draw_window gets the lock:
\* the window thread is never stuck in, or killed by, STATE.lock().
C14_PaintAcquiresLock == pc \notin {"hung", "aborted"}

\* C15: in every reachable state is_drawing implies that paths is not
\* empty, so the unwrap of paths.last_mut() in AddPoint never fails.
C15_DrawingHasPath ==
    /\ state.is_drawing => state.paths # <<>>
    /\ ~AddPointUnwrapFails(state)
    /\ key = "VK_SPACE" => pc = "idle"

\* C15 witness: AddPoint took the last path of a state that was drawing
C15_Witness ==
    /\ key = "VK_SPACE"
    /\ pc = "idle"
    /\ state.is_drawing
    /\ Len(state.paths) = 1
    /\ Len(state.paths[1].points) = 2

\* seq without its last element, the empty sequence as it is
AllButLast(seq) == IF seq = <<>> THEN <<>> ELSE SubSeq(seq, 1, Len(seq) - 1)

\* C16: RemoveLastPoint removes exactly the last point of the last path, is
\* a no-op if that path or paths is empty, and changes neither is_drawing
\* nor the number of paths; CommitPath after a RemoveLastPoint that left the
\* open path empty keeps that empty path and ends drawing.
C16_RemoveLastPoint ==
    [][/\ key' = "VK_BACK" =>
            /\ pc' = "idle"
            /\ state'.is_drawing = state.is_drawing
            /\ Len(state'.paths) = Len(state.paths)
            /\ \A i \in 1..(Len(state.paths) - 1) :
                   state'.paths[i] = state.paths[i]
            /\ state.paths # <<>> =>
                   Last(state'.paths).points
                       = AllButLast(Last(state.paths).points)
       /\ (/\ key = "VK_BACK"
           /\ key' = "VK_RETURN"
           /\ state.is_drawing
           /\ Last(state.paths).points = <<>>) =>
            /\ state'.paths = state.paths
            /\ ~state'.is_drawing]_vars

\* C16 witness: a path emptied point by point has been committed
C16_Witness ==
    /\ key = "VK_RETURN"
    /\ pc = "idle"
    /\ ~state.is_drawing
    /\ state.paths # <<>>
    /\ Last(state.paths).points = <<>>

\* C17 as claimed: while is_drawing is false every command but CancelPath
\* leaves the points of the committed last path as they are.
C17_CommittedUntouched ==
    [][(/\ ~state.is_drawing
        /\ state.paths # <<>>
        /\ key' # "VK_ESCAPE") =>
            /\ Len(state'.paths) >= Len(state.paths)
            /\ state'.paths[Len(state.paths)].points
                   = Last(state.paths).points]_vars

\* C17 as the code has it: while is_drawing is false RemoveLastPoint takes
\* the last point off the committed last path, CancelPath removes the path,
\* and every other command leaves its points as they are.
C17_CommittedEditedByBackspace ==
    [][(~state.is_drawing /\ state.paths # <<>>) =>
          CASE key' = "VK_ESCAPE" ->
                   Len(state'.paths) = Len(state.paths) - 1
            [] key' = "VK_BACK" ->
                   /\ Len(state'.paths) = Len(state.paths)
                   /\ ~state'.is_drawing
                   /\ Last(state'.paths).points
                          = AllButLast(Last(state.paths).points)
            [] OTHER ->
                   /\ Len(state'.paths) >= Len(state.paths)
                   /\ state'.paths[Len(state.paths)].points
                          = Last(state.paths).points]_vars

\* C17 witness: a committed path of two points lost its second point
C17_Witness ==
    /\ key = "VK_BACK"
    /\ pc = "idle"
    /\ ~state.is_drawing
    /\ Len(state.paths) = 1
    /\ Len(state.paths[1].points) = 1

\* C18: every step leaves all paths but the last as they are, changes the
\* number of paths by at most 1, and changes the number of points of the
\* path in the last place by at most 1 (a path that is new has at most one
\* point, and the path in front of it is as it was).
C18_TailOnly ==
    [][LET p == state.paths
           q == state'.paths
       IN  /\ Len(q) - Len(p) \in {-1, 0, 1}
           /\ \A i \in 1..(Len(p) - 1) : i <= Len(q) /\ q[i] = p[i]
           /\ (Len(q) = Len(p) /\ p # <<>>) =>
                  Len(Last(q).points) - Len(Last(p).points) \in {-1, 0, 1}
           /\ Len(q) = Len(p) + 1 =>
                  /\ \A i \in 1..Len(p) : q[i] = p[i]
                  /\ Len(Last(q).points) <= 1]_vars

\* C18 witness: the only point of the second path removed, the first path
\* standing
C18_Witness ==
    /\ key = "VK_BACK"
    /\ pc = "idle"
    /\ Len(state.paths) = 2
    /\ state.paths[1].points # <<>>
    /\ state.paths[2].points = <<>>

\* C19: MoveLeft and MoveRight change only cursor.x, MoveUp and MoveDown
\* only cursor.y, the H key (increase or decrease) only grid_count.x, the V
\* key only grid_count.y, CommitPath only is_drawing; stored points do not
\* move with the cursor.
C19_Frames ==
    [][/\ key' \in {"VK_LEFT", "VK_RIGHT"} =>
            state' = [state EXCEPT !.cursor.x = state'.cursor.x]
       /\ key' \in {"VK_UP", "VK_DOWN"} =>
            state' = [state EXCEPT !.cursor.y = state'.cursor.y]
       /\ key' = "VK_H" =>
            state' = [state EXCEPT !.grid_count.x = state'.grid_count.x]
       /\ key' = "VK_V" =>
            state' = [state EXCEPT !.grid_count.y = state'.grid_count.y]
       /\ key' = "VK_RETURN" =>
            state' = [state EXCEPT !.is_drawing = state'.is_drawing]]_vars

\* C19 witness: the cursor moved down and away from the point dropped at
\* the origin
C19_Witness ==
    /\ key = "VK_DOWN"
    /\ pc = "idle"
    /\ state.cursor = Point(0, 100)
    /\ state.is_drawing
    /\ state.paths = <<ClosedPath(<<Point(0, 0)>>)>>

\* C20: MoveRight gives cursor.x' = cursor.x + 100 and MoveDown gives
\* cursor.y' = cursor.y + 100, exactly and in an i32, from every reachable
\* state: the sum fits, the result never wraps and the handler never aborts.
C20_NoUpperClamp ==
    [][/\ key' = "VK_RIGHT" =>
            /\ pc' = "idle"
            /\ state.cursor.x <= I32Max - HORIZONTAL_FACTOR
            /\ state'.cursor.x = state.cursor.x + HORIZONTAL_FACTOR
       /\ key' = "VK_DOWN" =>
            /\ pc' = "idle"
            /\ state.cursor.y <= I32Max - VERTICAL_FACTOR
            /\ state'.cursor.y = state.cursor.y + VERTICAL_FACTOR]_vars

====
